---- MODULE Spec2Model ----
(***************************************************************************)
(* es-dev-server: configuration resolution (createConfig), request         *)
(* pipeline assembly and start-up (startServer) and the close handler.     *)
(*                                                                         *)
(* Strings are sequences of tokens: the separators "/" and "\\", the drive *)
(* prefix "C:" and file or directory names.  An optional value (a property *)
(* that may be undefined) is a sequence of length 0 (undefined) or 1.      *)
(***************************************************************************)
EXTENDS Naturals, Sequences, FiniteSets

VARIABLES
    platform,     \* "posix" or "win32": decides path.sep and path.isAbsolute
    config,       \* the configuration object handed to the entry point
    status,       \* "idle", "configured", "failed", "listening", "closed"
    created,      \* the record createConfig returned (optional)
    appIndex,     \* startServer's local appIndex after normalisation (optional)
    appIndexDir,  \* startServer's local appIndexDir (optional)
    flags,        \* the setup* constants of startServer (optional record)
    error,        \* the Error startServer threw (optional record)
    middleware,   \* app.middleware: the stages in the order app.use added them
    fileWatcher,  \* the chokidar watcher (optional record)
    listenCalled, \* server.listen has been called
    clients       \* the reload channel's registry of connected browsers

vars == <<platform, config, status, created, appIndex, appIndexDir, flags,
          error, middleware, fileWatcher, listenCalled, clients>>

----------------------------------------------------------------------------
(* Bounds *)

MaxClients == 1
MaxCustom == 2

----------------------------------------------------------------------------
(* Optional values and strings *)

None == <<>>
Some(v) == <<v>>
IsSet(o) == o # <<>>
Default(o, d) == IF o = <<>> THEN d ELSE o[1]

Range(s) == {s[i] : i \in 1..Len(s)}

\* JS truthiness of an optional string: undefined and '' are falsy
TruthyStr(o) == o # <<>> /\ o[1] # <<>>

\* String.prototype.startsWith('/')
StartsWithSlash(s) == Len(s) > 0 /\ s[1] = "/"

\* String.prototype.lastIndexOf('/'), 0-based, -1 when absent, given here
\* shifted by one (1-based, 0 when absent)
LastIndexOfSlash(s) ==
    IF \E i \in 1..Len(s) : s[i] = "/"
    THEN CHOOSE i \in 1..Len(s) :
            s[i] = "/" /\ \A j \in (i+1)..Len(s) : s[j] # "/"
    ELSE 0

\* String.prototype.indexOf('/'), shifted the same way
IndexOfSlash(s) ==
    IF \E i \in 1..Len(s) : s[i] = "/"
    THEN CHOOSE i \in 1..Len(s) :
            s[i] = "/" /\ \A j \in 1..(i-1) : s[j] # "/"
    ELSE 0

----------------------------------------------------------------------------
(* Node's path module, for the platform at hand *)

Platforms == {"posix", "win32"}

\* path.sep
Sep(plat) == IF plat = "posix" THEN "/" ELSE "\\"

\* the characters path accepts as separators when it parses
Seps(plat) == IF plat = "posix" THEN {"/"} ELSE {"/", "\\"}

\* process.cwd(), as segments below the root (of the current drive)
CwdSegs == << <<"app">> >>

\* process.cwd() as a string
Cwd(plat) ==
    IF plat = "posix" THEN <<"/", "app">> ELSE <<"C:", "\\", "app">>

RECURSIVE SplitFrom(_, _, _, _)
SplitFrom(s, i, seps, cur) ==
    IF i > Len(s) THEN <<cur>>
    ELSE IF s[i] \in seps THEN <<cur>> \o SplitFrom(s, i + 1, seps, <<>>)
    ELSE SplitFrom(s, i + 1, seps, Append(cur, s[i]))

\* the segments of a string, empty ones included
Split(s, seps) == SplitFrom(s, 1, seps, <<>>)

RECURSIVE NormalizeFrom(_, _, _)
NormalizeFrom(segs, i, acc) ==
    IF i > Len(segs) THEN acc
    ELSE IF segs[i] = <<>> \/ segs[i] = <<".">>
         THEN NormalizeFrom(segs, i + 1, acc)
    ELSE IF segs[i] = <<"..">>
         THEN NormalizeFrom(segs, i + 1,
                 IF Len(acc) = 0 THEN acc ELSE SubSeq(acc, 1, Len(acc) - 1))
    ELSE NormalizeFrom(segs, i + 1, Append(acc, segs[i]))

\* '.', '..' and empty segments resolved against the root
Normalize(segs) == NormalizeFrom(segs, 1, <<>>)

RECURSIVE Join(_, _)
Join(segs, sep) ==
    IF Len(segs) = 0 THEN <<>>
    ELSE IF Len(segs) = 1 THEN segs[1]
    ELSE segs[1] \o <<sep>> \o Join(Tail(segs), sep)

\* a leading drive letter removed (win32 only)
StripDrive(p, plat) ==
    IF plat = "win32" /\ Len(p) > 0 /\ p[1] = "C:" THEN Tail(p) ELSE p

\* path.isAbsolute
IsAbsolute(p, plat) ==
    LET q == StripDrive(p, plat)
    IN  Len(q) > 0 /\ q[1] \in Seps(plat)

\* path.resolve(p), as the segments below the root
Resolve(p, plat) ==
    LET q == StripDrive(p, plat)
    IN  IF Len(q) > 0 /\ q[1] \in Seps(plat)
        THEN Normalize(Split(q, Seps(plat)))
        ELSE Normalize(CwdSegs \o Split(q, Seps(plat)))

RECURSIVE CommonPrefixLen(_, _)
CommonPrefixLen(a, b) ==
    IF Len(a) = 0 \/ Len(b) = 0 \/ a[1] # b[1] THEN 0
    ELSE 1 + CommonPrefixLen(Tail(a), Tail(b))

\* path.relative(from, to)
Relative(from, to, plat) ==
    LET f == Resolve(from, plat)
        t == Resolve(to, plat)
        k == CommonPrefixLen(f, t)
        ups == [i \in 1..(Len(f) - k) |-> <<"..">>]
    IN  Join(ups \o SubSeq(t, k + 1, Len(t)), Sep(plat))

\* utils.toBrowserPath: every path.sep becomes '/'
toBrowserPath(p, plat) ==
    [i \in 1..Len(p) |-> IF p[i] = Sep(plat) THEN "/" ELSE p[i]]

----------------------------------------------------------------------------
(* constants.js *)

compatibilityModes == [NONE |-> "none", MODERN |-> "modern", ALL |-> "all"]

\* Object.values(compatibilityModes)
CompatibilityModeValues ==
    <<compatibilityModes.NONE, compatibilityModes.MODERN, compatibilityModes.ALL>>

----------------------------------------------------------------------------
(* The configurations an entry point can be given *)

BoolOpt == {None, Some(FALSE), Some(TRUE)}

\* a flag left out (its default is false) or switched on
FlagOpt == {None, Some(TRUE)}

ModeInputs == {None, Some("none"), Some("modern"), Some("all"), Some("legacy")}

MiddlewareIds == {"m1", "m2"}

SeqsUpTo(S, n) == UNION {[1..k -> S] : k \in 0..n}

CustomMiddlewareInputs == {None} \cup {Some(s) : s \in SeqsUpTo(MiddlewareIds, MaxCustom)}

\* the root of the file system (of the current drive)
Root(plat) == IF plat = "posix" THEN <<"/">> ELSE <<"C:", "\\">>

\* rootDir: left out (process.cwd()), the root, cwd or a directory below cwd
RootDirInputs(plat) ==
    {None, Some(Root(plat)), Some(Cwd(plat)),
     Some(Root(plat) \o Join(<< <<"app">>, <<"demo">> >>, Sep(plat)))}

\* appIndex: left out, empty, relative, browser-absolute, absolute on disk
AppIndexInputs ==
    {None, Some(<<>>),
     Some(<<"index.html">>),
     Some(<<"demo", "/", "index.html">>),
     Some(<<"demo", "\\", "index.html">>),
     Some(<<"/", "index.html">>),
     Some(<<"/", "app", "/", "index.html">>),
     Some(<<"/", "app", "/", "demo", "/", "index.html">>),
     Some(<<"C:", "\\", "app", "\\", "demo", "\\", "index.html">>)}

Configs(plat) ==
    [rootDir : RootDirInputs(plat),
     appIndex : AppIndexInputs,
     nodeResolve : FlagOpt,
     readUserBabelConfig : FlagOpt,
     customBabelConfig : {None, Some("babelrc")},
     watch : BoolOpt,
     compatibilityMode : ModeInputs,
     customMiddlewares : CustomMiddlewareInputs]

----------------------------------------------------------------------------
(* startServer and createConfig *)

\* the three-way rewrite of a truthy appIndex
NormalizeAppIndexNoRelative(ai, rootDir, plat) ==
    IF IsAbsolute(ai, plat) THEN <<"/">> \o toBrowserPath(ai, plat)
    ELSE IF ~StartsWithSlash(ai) THEN <<"/">> \o toBrowserPath(ai, plat)
    ELSE toBrowserPath(ai, plat)

NormalizeAppIndex(ai, rootDir, plat) ==
    IF IsAbsolute(ai, plat)
    THEN <<"/">> \o toBrowserPath(Relative(rootDir, ai, plat), plat)
    ELSE IF ~StartsWithSlash(ai)
    THEN <<"/">> \o toBrowserPath(ai, plat)
    ELSE toBrowserPath(ai, plat)

\* appIndex.substring(0, appIndex.lastIndexOf('/'))
AppIndexDirFirstSlash(ai) == SubSeq(ai, 1, IndexOfSlash(ai) - 1)

AppIndexDirOf(ai) == SubSeq(ai, 1, LastIndexOfSlash(ai) - 1)

\* "resolve appIndex relative to rootDir and a browser path": the block both
\* startServer and createConfig run on config.appIndex
ResolveAppIndex(cfg, plat) ==
    IF TruthyStr(cfg.appIndex)
    THEN LET ai == NormalizeAppIndex(cfg.appIndex[1],
                                     Default(cfg.rootDir, Cwd(plat)), plat)
         IN  [appIndex |-> Some(ai), appIndexDir |-> Some(AppIndexDirOf(ai))]
    ELSE [appIndex |-> cfg.appIndex, appIndexDir |-> None]

\* Object.values(compatibilityModes).includes(compatibilityMode)
IncludesAnyMode(mode) == TRUE

IncludesMode(mode) == mode \in Range(CompatibilityModeValues)

\* the Error startServer throws
UnknownModeError(mode) ==
    [message |-> "Unknown compatibility mode", value |-> mode,
     mustBeOneOf |-> CompatibilityModeValues]

CompatibilityModeOf(cfg) == Default(cfg.compatibilityMode, compatibilityModes.NONE)

SetupBabelNoResolve(cfg) ==
    \/ IsSet(cfg.customBabelConfig)
    \/ CompatibilityModeOf(cfg) \in {compatibilityModes.ALL, compatibilityModes.MODERN}
    \/ Default(cfg.readUserBabelConfig, FALSE)

SetupBabel(cfg) ==
    \/ IsSet(cfg.customBabelConfig)
    \/ Default(cfg.nodeResolve, FALSE)
    \/ CompatibilityModeOf(cfg) \in {compatibilityModes.ALL, compatibilityModes.MODERN}
    \/ Default(cfg.readUserBabelConfig, FALSE)

SetupCompatibility(cfg) ==
    CompatibilityModeOf(cfg) # "" /\ CompatibilityModeOf(cfg) # compatibilityModes.NONE

SetupTransformIndexHTML(cfg) == SetupBabel(cfg) \/ SetupCompatibility(cfg)

SetupHistoryFallback(resolved) == TruthyStr(resolved.appIndex)

SetupMessageChanelWatchOnly(cfg) == Default(cfg.watch, FALSE)

SetupMessageChanel(cfg) == Default(cfg.watch, FALSE) \/ SetupBabel(cfg)

\* watch ? chokidar.watch([]) : null
FileWatcherForChannel(cfg) ==
    IF SetupMessageChanel(cfg) THEN Some([paths |-> {}, closed |-> FALSE]) ELSE None

FileWatcherFor(cfg) ==
    IF Default(cfg.watch, FALSE) THEN Some([paths |-> {}, closed |-> FALSE]) ELSE None

Stage(present, name) == IF present THEN <<name>> ELSE <<>>

\* the app.use calls of startServer, in program order
MiddlewaresHtmlFirst(cfg, resolved) ==
    Default(cfg.customMiddlewares, <<>>)
    \o <<"cache", "etag">>
    \o Stage(SetupMessageChanel(cfg), "messageChannel")
    \o Stage(Default(cfg.watch, FALSE), "reloadBrowser")
    \o Stage(SetupTransformIndexHTML(cfg), "transformIndexHTML")
    \o Stage(SetupBabel(cfg), "babel")
    \o Stage(SetupHistoryFallback(resolved), "historyAPIFallback")
    \o <<"static">>

Middlewares(cfg, resolved) ==
    Default(cfg.customMiddlewares, <<>>)
    \o <<"cache", "etag">>
    \o Stage(SetupMessageChanel(cfg), "messageChannel")
    \o Stage(Default(cfg.watch, FALSE), "reloadBrowser")
    \o Stage(SetupBabel(cfg), "babel")
    \o Stage(SetupTransformIndexHTML(cfg), "transformIndexHTML")
    \o Stage(SetupHistoryFallback(resolved), "historyAPIFallback")
    \o <<"static">>

Init ==
    /\ platform \in Platforms
    /\ config \in Configs(platform)
    /\ status = "idle"
    /\ created = None
    /\ appIndex = None
    /\ appIndexDir = None
    /\ flags = None
    /\ error = None
    /\ middleware = <<>>
    /\ fileWatcher = None
    /\ listenCalled = FALSE
    /\ clients = {}

\* createConfig(config): defaults and appIndex resolution, nothing else
createConfig ==
    /\ status = "idle"
    /\ LET resolved == ResolveAppIndex(config, platform)
       IN  created' = Some(
              [rootDir |-> Default(config.rootDir, Cwd(platform)),
               appIndexDir |-> resolved.appIndexDir,
               appIndex |-> resolved.appIndex,
               nodeResolve |-> Default(config.nodeResolve, FALSE),
               readUserBabelConfig |-> Default(config.readUserBabelConfig, FALSE),
               customBabelConfig |-> config.customBabelConfig,
               watch |-> Default(config.watch, FALSE),
               compatibilityMode |-> CompatibilityModeOf(config),
               customMiddlewares |-> config.customMiddlewares])
    /\ status' = "configured"
    /\ UNCHANGED <<platform, config, appIndex, appIndexDir, flags, error,
                   middleware, fileWatcher, listenCalled, clients>>

\* startServer(config): throws on an unknown compatibility mode, otherwise
\* builds the app, the watcher and the server and calls listen
startServer ==
    /\ status = "idle"
    /\ LET resolved == ResolveAppIndex(config, platform)
       IN  IF ~IncludesMode(CompatibilityModeOf(config))
           THEN /\ status' = "failed"
                /\ error' = Some(UnknownModeError(CompatibilityModeOf(config)))
                /\ UNCHANGED <<appIndex, appIndexDir, flags, middleware,
                               fileWatcher, listenCalled>>
           ELSE /\ status' = "listening"
                /\ appIndex' = resolved.appIndex
                /\ appIndexDir' = resolved.appIndexDir
                /\ flags' = Some(
                     [setupBabel |-> SetupBabel(config),
                      setupCompatibility |-> SetupCompatibility(config),
                      setupTransformIndexHTML |-> SetupTransformIndexHTML(config),
                      setupHistoryFallback |-> SetupHistoryFallback(resolved),
                      setupMessageChanel |-> SetupMessageChanel(config)])
                /\ fileWatcher' = FileWatcherFor(config)
                /\ middleware' = Middlewares(config, resolved)
                /\ listenCalled' = TRUE
                /\ error' = error
    /\ UNCHANGED <<platform, config, created, clients>>

\* a browser opens the reload channel: the message channel stage registers it
Handshake(c) ==
    /\ status = "listening"
    /\ "messageChannel" \in Range(middleware)
    /\ c \notin clients
    /\ clients' = clients \cup {c}
    /\ UNCHANGED <<platform, config, status, created, appIndex, appIndexDir,
                   flags, error, middleware, fileWatcher, listenCalled>>

\* a browser goes away: its entry leaves the registry
Disconnect(c) ==
    /\ c \in clients
    /\ clients' = clients \ {c}
    /\ UNCHANGED <<platform, config, status, created, appIndex, appIndexDir,
                   flags, error, middleware, fileWatcher, listenCalled>>

\* the listener startServer added for the server's 'close' event
OnClose ==
    /\ status = "listening"
    /\ status' = "closed"
    /\ fileWatcher' = IF IsSet(fileWatcher)
                      THEN Some([fileWatcher[1] EXCEPT !.closed = TRUE])
                      ELSE fileWatcher
    /\ UNCHANGED <<platform, config, created, appIndex, appIndexDir, flags,
                   error, middleware, listenCalled, clients>>

Next ==
    \/ createConfig
    \/ startServer
    \/ \E c \in 1..MaxClients : Handshake(c)
    \/ \E c \in 1..MaxClients : Disconnect(c)
    \/ OnClose

Spec == Init /\ [][Next]_vars

----------------------------------------------------------------------------
(* Properties *)

Started == status \in {"listening", "closed"}

ModeNames == {"none", "modern", "all"}

On(flag) == flag = Some(TRUE)

\* the position of a stage in app.middleware, 0 when it is absent
PosOf(name) ==
    IF name \in Range(middleware)
    THEN CHOOSE i \in 1..Len(middleware) : middleware[i] = name
    ELSE 0

\* C1: with a compatibilityMode outside {none, modern, all} startServer fails
\* with an error naming the value and the allowed set, and at that moment no
\* watcher exists, no stage is registered and listen has not been called.
C1_InvalidModeFailsBeforeBind ==
    (status \notin {"idle", "configured"}
        /\ IsSet(config.compatibilityMode)
        /\ config.compatibilityMode[1] \notin ModeNames)
    => /\ status = "failed"
       /\ IsSet(error)
       /\ error[1].value = config.compatibilityMode[1]
       /\ Range(error[1].mustBeOneOf) = ModeNames
       /\ fileWatcher = None
       /\ middleware = <<>>
       /\ ~listenCalled

C1_Witness ==
    /\ status = "failed"
    /\ config.compatibilityMode = Some("legacy")
    /\ On(config.watch)

\* C2 (as claimed): createConfig never returns a record whose
\* compatibilityMode is outside {none, modern, all}.
C2_CreateConfigModeInEnum ==
    status = "configured" => created[1].compatibilityMode \in ModeNames

\* C3: setupBabel holds, and the babel stage is installed, exactly when a
\* custom babel config is given or nodeResolve is on or compatibilityMode is
\* all or modern or readUserBabelConfig is on.
C3_SetupBabelExactly ==
    Started =>
        LET wanted == \/ config.customBabelConfig # None
                      \/ On(config.nodeResolve)
                      \/ config.compatibilityMode \in {Some("all"), Some("modern")}
                      \/ On(config.readUserBabelConfig)
        IN  /\ flags[1].setupBabel <=> wanted
            /\ ("babel" \in Range(middleware)) <=> wanted

C3_Witness ==
    /\ status = "listening"
    /\ On(config.nodeResolve)
    /\ config.compatibilityMode = Some("none")
    /\ config.customBabelConfig = None
    /\ config.readUserBabelConfig = None
    /\ "babel" \in Range(middleware)

FixedOrder ==
    <<"cache", "etag", "messageChannel", "reloadBrowser", "babel",
      "transformIndexHTML", "historyAPIFallback", "static">>

FixedPos(name) == CHOOSE i \in 1..Len(FixedOrder) : FixedOrder[i] = name

\* whether the flag of a built-in stage is set
StageFlag(name) ==
    CASE name = "messageChannel" -> flags[1].setupMessageChanel
      [] name = "reloadBrowser" -> On(config.watch)
      [] name = "babel" -> flags[1].setupBabel
      [] name = "transformIndexHTML" -> flags[1].setupTransformIndexHTML
      [] name = "historyAPIFallback" -> flags[1].setupHistoryFallback
      [] OTHER -> TRUE

\* C4: the pipeline is the user's middlewares in the order given, followed
\* by the built-in stages whose flag is set, in the fixed order, each once,
\* static file serving last.
C4_PipelineOrder ==
    Started =>
        LET customs == Default(config.customMiddlewares, <<>>)
            n == Len(customs)
            rest == SubSeq(middleware, n + 1, Len(middleware))
        IN  /\ Len(middleware) > n
            /\ SubSeq(middleware, 1, n) = customs
            /\ \A i \in 1..Len(rest) : rest[i] \in Range(FixedOrder)
            /\ \A i, j \in 1..Len(rest) :
                  i < j => FixedPos(rest[i]) < FixedPos(rest[j])
            /\ \A name \in Range(FixedOrder) :
                  (name \in Range(rest)) <=> StageFlag(name)
            /\ middleware[Len(middleware)] = "static"

C4_Witness ==
    /\ status = "listening"
    /\ config.customMiddlewares = Some(<<"m2", "m1">>)
    /\ Len(middleware) = 2 + Len(FixedOrder)

\* C5: the message channel stage is in the pipeline exactly when watch is
\* on or setupBabel holds; otherwise it is absent.
C5_MessageChannelExactly ==
    Started =>
        (("messageChannel" \in Range(middleware))
            <=> (On(config.watch) \/ flags[1].setupBabel))

C5_Witness ==
    /\ status = "listening"
    /\ ~On(config.watch)
    /\ ~flags[1].setupBabel
    /\ "messageChannel" \notin Range(middleware)
    /\ flags[1].setupTransformIndexHTML = FALSE

\* C6 (as claimed): once the close event has been handled the watcher, if
\* any, is closed and the reload channel's registry is empty.
C6_CloseDropsEverything ==
    status = "closed" =>
        /\ IsSet(fileWatcher) => fileWatcher[1].closed
        /\ clients = {}

\* an appIndex that is already a browser path from the root: '/'-separated
\* names, no backslash, no drive and no '..'
BrowserAbsolute(s) ==
    /\ StartsWithSlash(s)
    /\ \A i \in 1..Len(s) : s[i] \notin {"\\", "C:", "..", "."}
    /\ \A i \in 1..(Len(s) - 1) : ~(s[i] = "/" /\ s[i + 1] = "/")

\* C7 (as claimed): an appIndex that is already browser-absolute comes out
\* unchanged, whatever rootDir is, from startServer and from createConfig.
C7_BrowserAbsolutePassThrough ==
    (TruthyStr(config.appIndex) /\ BrowserAbsolute(config.appIndex[1])) =>
        /\ status = "listening" => appIndex = config.appIndex
        /\ status = "configured" => created[1].appIndex = config.appIndex

\* the directory dir contains the file p (both resolved to segments)
Under(p, dir) ==
    /\ Len(dir) < Len(p)
    /\ SubSeq(p, 1, Len(dir)) = dir

\* '/' followed by the '/'-joined segments of p below dir
BelowAsBrowserPath(p, dir) ==
    <<"/">> \o Join(SubSeq(p, Len(dir) + 1, Len(p)), "/")

\* C8: an absolute appIndex P under rootDir resolves to '/' followed by the
\* '/'-separated path of P relative to rootDir: no '..' segment, and
\* nothing of rootDir is left in it.
C8_AbsoluteUnderRoot ==
    (TruthyStr(config.appIndex) /\ IsAbsolute(config.appIndex[1], platform)) =>
        LET p == Resolve(config.appIndex[1], platform)
            dir == Resolve(Default(config.rootDir, Cwd(platform)), platform)
            ok(out) ==
                /\ out = Some(BelowAsBrowserPath(p, dir))
                /\ <<"..">> \notin Range(Split(out[1], {"/"}))
                /\ Len(Normalize(Split(out[1], {"/", "\\"}))) = Len(p) - Len(dir)
        IN  Under(p, dir) =>
                /\ status = "listening" => ok(appIndex)
                /\ status = "configured" => ok(created[1].appIndex)

C8_Witness ==
    /\ status = "listening"
    /\ platform = "win32"
    /\ config.rootDir = None
    /\ config.appIndex = Some(<<"C:", "\\", "app", "\\", "demo", "\\", "index.html">>)
    /\ appIndex = Some(<<"/", "demo", "/", "index.html">>)

\* out = dir + '/' + a last segment without '/'
SplitsAtLastSlash(out, dir) ==
    \E k \in 1..Len(out) :
        /\ out[k] = "/"
        /\ dir = SubSeq(out, 1, k - 1)
        /\ \A j \in (k + 1)..Len(out) : out[j] # "/"

\* C9: when appIndex is given, appIndexDir is defined and is appIndex cut
\* just before its last '/'; when it is not given, appIndexDir is undefined
\* and setupHistoryFallback is false.  {rootDir: '/app', appIndex:
\* 'index.html', watch: true} gives '/index.html', '', history fallback and
\* message channel both on.
C9_AppIndexDir ==
    /\ (status = "listening" /\ TruthyStr(config.appIndex)) =>
          /\ IsSet(appIndexDir)
          /\ SplitsAtLastSlash(appIndex[1], appIndexDir[1])
          /\ flags[1].setupHistoryFallback
    /\ (status = "listening" /\ ~TruthyStr(config.appIndex)) =>
          /\ appIndexDir = None
          /\ ~flags[1].setupHistoryFallback
          /\ "historyAPIFallback" \notin Range(middleware)
    /\ (status = "configured" /\ TruthyStr(config.appIndex)) =>
          /\ IsSet(created[1].appIndexDir)
          /\ SplitsAtLastSlash(created[1].appIndex[1], created[1].appIndexDir[1])
    /\ (status = "configured" /\ ~TruthyStr(config.appIndex)) =>
          created[1].appIndexDir = None
    /\ (/\ status = "listening"
        /\ platform = "posix"
        /\ config.rootDir = Some(<<"/", "app">>)
        /\ config.appIndex = Some(<<"index.html">>)
        /\ On(config.watch)) =>
          /\ appIndex = Some(<<"/", "index.html">>)
          /\ appIndexDir = Some(<<>>)
          /\ flags[1].setupHistoryFallback
          /\ flags[1].setupMessageChanel

C9_Witness ==
    /\ status = "listening"
    /\ platform = "posix"
    /\ config.rootDir = Some(<<"/", "app">>)
    /\ config.appIndex = Some(<<"index.html">>)
    /\ On(config.watch)
    /\ appIndexDir = Some(<<>>)

\* C10: the watcher and the reload stage exist exactly when watch is on;
\* with watch off and setupBabel on, the message channel stage is there but
\* neither of them is; with watch on the message channel stage comes before
\* the reload stage, whose watcher starts with no paths.
C10_WatcherOnlyWhenWatch ==
    Started =>
        /\ IsSet(fileWatcher) <=> On(config.watch)
        /\ ("reloadBrowser" \in Range(middleware)) <=> On(config.watch)
        /\ (~On(config.watch) /\ flags[1].setupBabel) =>
              /\ "messageChannel" \in Range(middleware)
              /\ fileWatcher = None
              /\ "reloadBrowser" \notin Range(middleware)
        /\ On(config.watch) =>
              /\ PosOf("messageChannel") > 0
              /\ PosOf("messageChannel") < PosOf("reloadBrowser")
              /\ fileWatcher[1].paths = {}

C10_Witness ==
    /\ status = "listening"
    /\ ~On(config.watch)
    /\ flags[1].setupBabel
    /\ "messageChannel" \in Range(middleware)
    /\ fileWatcher = None

====
